---- MODULE Spec2Model ----
(***************************************************************************)
(* Lazily loaded DICOM object (core/src/object/mod.rs).                    *)
(*                                                                         *)
(* A LazyDicomObject is assembled by from_iter from a finite sequence of   *)
(* Result<DicomElementMarker> and is then queried with element,            *)
(* element_by_name and pixel_data.  A LazyDataElement pairs a marker with  *)
(* an optional cached value and is also usable on its own through its      *)
(* public constructor and accessors.                                       *)
(***************************************************************************)
EXTENDS Integers, Sequences, FiniteSets, TLC

\* ---------------------------------------------------------------- bounds
\* longest header sequence handed to from_iter
MaxIter == 3

\* ------------------------------------------------------------- constants
\* a u32 written as its two 16-bit halves <<high, low>>, so that 0xFFFFFFFF
\* keeps its exact value
U32(hi, lo) == <<hi, lo>>
\* declared length meaning "undefined length" (0xFFFFFFFF)
UndefinedLength == U32(65535, 65535)

\* ------------------------------------------------------------ input sets
\* (group, element) pairs: (0008,0020), (0010,0010), (0008,0030)
StudyDate   == <<8, 32>>
PatientName == <<16, 16>>
StudyTime   == <<8, 48>>
Tags        == {StudyDate, PatientName, StudyTime}
\* tags the parser produces headers for in the modelled inputs
HeaderTags  == {StudyDate, PatientName}
VRs         == {"PN", "SQ"}
Lengths     == {U32(0, 4), UndefinedLength}
Positions   == {0, 12}
\* errors the header sequence may carry
IterErrors  == {"UnexpectedEndOfElement", "Io"}
\* attribute names a caller may ask for
Names       == {"StudyDate", "PatientName", "StudyTime", "NoSuchName"}
\* decoded values a caller may write through value_mut
DicomValues == {"v1", "v2"}
\* Option::None
None        == "None"

\* DicomElementMarker: the header facts and the position of the value
Markers == [tag : HeaderTags, vr : VRs, len : Lengths, pos : Positions]

\* Result<DicomElementMarker>
OkItem(m)  == <<"Ok", m>>
ErrItem(e) == <<"Err", e>>
Items == {OkItem(m) : m \in Markers} \cup {ErrItem(e) : e \in IterErrors}

RECURSIVE SeqsUpTo(_)
SeqsUpTo(n) ==
  IF n = 0 THEN {<< >>}
  ELSE LET S == SeqsUpTo(n - 1)
       IN  S \cup {Append(s, x) : s \in {q \in S : Len(q) = n - 1}, x \in Items}

VARIABLES
  iter,     \* the header sequence given to from_iter
  pc,       \* "new" | "ready" | "failed" | "panicked"
  entries,  \* the object's index: Tag -> LazyDataElement (empty when no object)
  pulled,   \* how many items from_iter took from the sequence
  ret,      \* what the last object operation returned and what it touched
  served,   \* tags for which element / element_by_name returned Ok
  elem,     \* a LazyDataElement owned directly by the caller: << >> or <<e>>
  eret      \* what the last accessor of elem returned

vars == <<iter, pc, entries, pulled, ret, served, elem, eret>>

\* ------------------------------------------------------- LazyDataElement
\* constructor that starts the element with a value already in its cache
LazyDataElement_new_eager(marker) == [marker |-> marker, value |-> "v1"]

\* LazyDataElement::new
LazyDataElement_new(marker) == [marker |-> marker, value |-> None]

\* LazyDataElement::tag
tag(e) == e.marker.tag

\* LazyDataElement::vr
vr(e) == e.marker.vr

\* LazyDataElement::len
len(e) == e.marker.len

\* LazyDataElement::value
value(e) == e.value

\* LazyDataElement::value_mut followed by the caller's write through it
value_mut(e, v) == [e EXCEPT !.value = v]

\* ---------------------------------------------------------------- HashMap
EmptyMap == [t \in {} |-> None]

\* insert that keeps an entry already stored under the key
insert_keep_first(map, k, v) ==
  [t \in (DOMAIN map) \cup {k} |-> IF t \in DOMAIN map THEN map[t] ELSE v]

\* HashMap::insert: a later insert under the same key replaces the entry
insert(map, k, v) ==
  [t \in (DOMAIN map) \cup {k} |-> IF t = k THEN v ELSE map[t]]

\* ------------------------------------------------------------- dictionary
\* the standard dictionary's name index (name -> tag)
StandardDictionary ==
  [n \in {"StudyDate", "PatientName", "StudyTime"} |->
     CASE n = "StudyDate"   -> StudyDate
       [] n = "PatientName" -> PatientName
       [] n = "StudyTime"   -> StudyTime]

\* DataDictionary::get_by_name
get_by_name(name) ==
  IF name \in DOMAIN StandardDictionary
  THEN [some |-> TRUE, tag |-> StandardDictionary[name]]
  ELSE [some |-> FALSE, tag |-> << >>]

\* ---------------------------------------------------------------- from_iter
\* collect that drains the whole sequence before it reports the first Err
RECURSIVE collect_drain(_, _, _)
collect_drain(it, i, map) ==
  IF i > Len(it)
  THEN [result |-> "Ok", entries |-> map, err |-> None, pulled |-> Len(it)]
  ELSE IF it[i][1] = "Err"
  THEN [result |-> "Err", entries |-> EmptyMap, err |-> it[i][2],
        pulled |-> Len(it)]
  ELSE collect_drain(it, i + 1,
                     insert(map, it[i][2].tag, LazyDataElement_new(it[i][2])))

\* iter.map(..).collect() into Result<HashMap<..>>: stops at the first Err
RECURSIVE collect(_, _, _)
collect(it, i, map) ==
  IF i > Len(it)
  THEN [result |-> "Ok", entries |-> map, err |-> None, pulled |-> Len(it)]
  ELSE IF it[i][1] = "Err"
  THEN [result |-> "Err", entries |-> EmptyMap, err |-> it[i][2], pulled |-> i]
  ELSE collect(it, i + 1, insert(map, it[i][2].tag, LazyDataElement_new(it[i][2])))

\* from_iter that drops failed items instead of stopping at them
from_iter_skip_errors(it) ==
  LET c == collect(SelectSeq(it, LAMBDA x : x[1] = "Ok"), 1, EmptyMap)
  IN  [result |-> c.result, err |-> c.err, entries |-> c.entries,
       pulled |-> Len(it), trace |-> << >>]

\* LazyDicomObject::from_iter
from_iter(it) ==
  LET c == collect(it, 1, EmptyMap)
  IN  [result |-> c.result, err |-> c.err, entries |-> c.entries,
       pulled |-> c.pulled, trace |-> << >>]

\* ------------------------------------------------------------- operations
\* LazyDicomObject::lookup_name
lookup_name(name) ==
  LET e == get_by_name(name)
  IN  IF e.some THEN [result |-> "Ok", tag |-> e.tag, err |-> None]
      ELSE [result |-> "Err", tag |-> << >>, err |-> "NoSuchAttributeName"]

\* element that reports an absent tag with the name-lookup error
element_wrong_error(ents, t) ==
  [result |-> IF t \in DOMAIN ents THEN "Panic" ELSE "Err",
   err |-> IF t \in DOMAIN ents THEN None ELSE "NoSuchAttributeName",
   value |-> None, entries |-> ents,
   trace |-> << <<"element", t>>, <<"get_mut", t>> >>]

\* element that creates an entry for a tag it does not find
element_insert_on_miss(ents, t) ==
  [result |-> IF t \in DOMAIN ents THEN "Panic" ELSE "Err",
   err |-> IF t \in DOMAIN ents THEN None ELSE "NoSuchDataElement",
   value |-> None,
   entries |-> IF t \in DOMAIN ents THEN ents
               ELSE insert(ents, t, LazyDataElement_new(
                      [tag |-> t, vr |-> "PN", len |-> U32(0, 0), pos |-> 0])),
   trace |-> << <<"element", t>>, <<"get_mut", t>> >>]

\* element that fills the cache of every entry once one present tag is asked
element_fill_all(ents, t) ==
  [result |-> IF t \in DOMAIN ents THEN "Panic" ELSE "Err",
   err |-> IF t \in DOMAIN ents THEN None ELSE "NoSuchDataElement",
   value |-> None,
   entries |-> IF t \in DOMAIN ents
               THEN [u \in DOMAIN ents |-> value_mut(ents[u], "v1")]
               ELSE ents,
   trace |-> << <<"element", t>>, <<"get_mut", t>> >>]

\* element that takes the entry out of the index (remove in place of get_mut)
element_take_entry(ents, t) ==
  [result |-> IF t \in DOMAIN ents THEN "Panic" ELSE "Err",
   err |-> IF t \in DOMAIN ents THEN None ELSE "NoSuchDataElement",
   value |-> None,
   entries |-> [u \in (DOMAIN ents) \ {t} |-> ents[u]],
   trace |-> << <<"element", t>>, <<"get_mut", t>> >>]

\* LazyDicomObject::element
element(ents, t) ==
  IF t \notin DOMAIN ents
  THEN [result |-> "Err", err |-> "NoSuchDataElement", value |-> None,
        entries |-> ents,
        trace |-> << <<"element", t>>, <<"get_mut", t>> >>]
  ELSE \* unimplemented!()
       [result |-> "Panic", err |-> None, value |-> None,
        entries |-> ents,
        trace |-> << <<"element", t>>, <<"get_mut", t>> >>]

\* element_by_name with a lookup of its own in place of the delegation
element_by_name_own_lookup(ents, name) ==
  LET l == lookup_name(name)
  IN  IF l.result = "Err" \/ l.tag \notin DOMAIN ents
      THEN [result |-> "Err", err |-> "NoSuchAttributeName", value |-> None,
            entries |-> ents,
            trace |-> << <<"get_by_name", name>> >>]
      ELSE LET r == element(ents, l.tag)
           IN  [r EXCEPT !.trace = << <<"get_by_name", name>> >> \o r.trace]

\* element_by_name that asks element for a default tag when the name is unknown
element_by_name_default_tag(ents, name) ==
  LET l == lookup_name(name)
      r == element(ents, IF l.result = "Err" THEN <<0, 0>> ELSE l.tag)
  IN  [r EXCEPT !.trace = << <<"get_by_name", name>> >> \o r.trace]

\* element_by_name that looks at the index before it resolves the name
element_by_name_index_first(ents, name) ==
  LET l == lookup_name(name)
  IN  IF DOMAIN ents = {}
      THEN [result |-> "Err", err |-> "NoSuchDataElement", value |-> None,
            entries |-> ents,
            trace |-> << <<"get_mut", l.tag>>, <<"get_by_name", name>> >>]
      ELSE IF l.result = "Err"
      THEN [result |-> "Err", err |-> l.err, value |-> None,
            entries |-> ents,
            trace |-> << <<"get_by_name", name>> >>]
      ELSE LET r == element(ents, l.tag)
           IN  [r EXCEPT !.trace = << <<"get_by_name", name>> >> \o r.trace]

\* LazyDicomObject::element_by_name
element_by_name(ents, name) ==
  LET l == lookup_name(name)
  IN  IF l.result = "Err"
      THEN [result |-> "Err", err |-> l.err, value |-> None,
            entries |-> ents,
            trace |-> << <<"get_by_name", name>> >>]
      ELSE LET r == element(ents, l.tag)
           IN  [r EXCEPT !.trace = << <<"get_by_name", name>> >> \o r.trace]

\* pixel_data that reports success without a payload
pixel_data_empty_ok(ents) ==
  [result |-> "Ok", err |-> None, value |-> None, entries |-> ents,
   trace |-> << >>]

\* LazyDicomObject::pixel_data
pixel_data(ents) ==
  \* unimplemented!()
  [result |-> "Panic", err |-> None, value |-> None, entries |-> ents,
   trace |-> << >>]

\* --------------------------------------------------------------- the state
NoRet == [op |-> "none", tag |-> << >>, name |-> "", result |-> "none",
          err |-> None, value |-> None, trace |-> << >>]
NoERet == [op |-> "none", result |-> None]

Init ==
  /\ iter \in SeqsUpTo(MaxIter)
  /\ pc = "new"
  /\ entries = EmptyMap
  /\ pulled = 0
  /\ ret = NoRet
  /\ served = {}
  /\ elem = << >>
  /\ eret = NoERet

PcAfter(result) == IF result = "Panic" THEN "panicked" ELSE "ready"

\* the caller builds the object
FromIter ==
  /\ pc = "new"
  /\ LET r == from_iter(iter)
     IN  /\ pc' = IF r.result = "Ok" THEN "ready" ELSE "failed"
         /\ entries' = r.entries
         /\ pulled' = r.pulled
         /\ ret' = [NoRet EXCEPT !.op = "from_iter", !.result = r.result,
                                 !.err = r.err, !.trace = r.trace]
  /\ UNCHANGED <<iter, served, elem, eret>>

\* the caller asks for an element by tag
Element(t) ==
  /\ pc = "ready"
  /\ LET r == element(entries, t)
     IN  /\ pc' = PcAfter(r.result)
         /\ entries' = r.entries
         /\ ret' = [NoRet EXCEPT !.op = "element", !.tag = t,
                                 !.result = r.result, !.err = r.err,
                                 !.value = r.value, !.trace = r.trace]
         /\ served' = IF r.result = "Ok" THEN served \cup {t} ELSE served
  /\ UNCHANGED <<iter, pulled, elem, eret>>

\* the caller asks for an element by attribute name
ElementByName(n) ==
  /\ pc = "ready"
  /\ LET r == element_by_name(entries, n)
         l == lookup_name(n)
     IN  /\ pc' = PcAfter(r.result)
         /\ entries' = r.entries
         /\ ret' = [NoRet EXCEPT !.op = "element_by_name", !.name = n,
                                 !.tag = l.tag,
                                 !.result = r.result, !.err = r.err,
                                 !.value = r.value, !.trace = r.trace]
         /\ served' = IF r.result = "Ok" THEN served \cup {l.tag} ELSE served
  /\ UNCHANGED <<iter, pulled, elem, eret>>

\* the caller asks for the pixel data
PixelData ==
  /\ pc = "ready"
  /\ LET r == pixel_data(entries)
     IN  /\ pc' = PcAfter(r.result)
         /\ entries' = r.entries
         /\ ret' = [NoRet EXCEPT !.op = "pixel_data", !.result = r.result,
                                 !.err = r.err, !.trace = r.trace]
  /\ UNCHANGED <<iter, pulled, served, elem, eret>>

Next ==
  \/ FromIter
  \/ \E t \in Tags : Element(t)
  \/ \E n \in Names : ElementByName(n)
  \/ PixelData

Spec == Init /\ [][Next]_vars

\* ------------------------------------------- a LazyDataElement on its own
\* LazyDataElement and its constructor and accessors are public: a caller
\* may hold an element outside of any object.
InitElem ==
  /\ iter = << >>
  /\ pc = "new"
  /\ entries = EmptyMap
  /\ pulled = 0
  /\ ret = NoRet
  /\ served = {}
  /\ elem = << >>
  /\ eret = NoERet

NewElement(m) ==
  /\ elem = << >>
  /\ elem' = <<LazyDataElement_new(m)>>
  /\ UNCHANGED <<iter, pc, entries, pulled, ret, served, eret>>

GetTag ==
  /\ elem # << >>
  /\ eret' = [op |-> "tag", result |-> tag(elem[1])]
  /\ UNCHANGED <<iter, pc, entries, pulled, ret, served, elem>>

GetVr ==
  /\ elem # << >>
  /\ eret' = [op |-> "vr", result |-> vr(elem[1])]
  /\ UNCHANGED <<iter, pc, entries, pulled, ret, served, elem>>

GetLen ==
  /\ elem # << >>
  /\ eret' = [op |-> "len", result |-> len(elem[1])]
  /\ UNCHANGED <<iter, pc, entries, pulled, ret, served, elem>>

GetValue ==
  /\ elem # << >>
  /\ eret' = [op |-> "value", result |-> value(elem[1])]
  /\ UNCHANGED <<iter, pc, entries, pulled, ret, served, elem>>

\* *e.value_mut() = v, for any Option<DicomValue> v
ValueMut(v) ==
  /\ elem # << >>
  /\ elem' = <<value_mut(elem[1], v)>>
  /\ eret' = [op |-> "value_mut", result |-> v]
  /\ UNCHANGED <<iter, pc, entries, pulled, ret, served>>

NextElem ==
  \/ \E m \in Markers : NewElement(m)
  \/ GetTag
  \/ GetVr
  \/ GetLen
  \/ GetValue
  \/ \E v \in DicomValues \cup {None} : ValueMut(v)

ElementSpec == InitElem /\ [][NextElem]_vars

\* ------------------------------------------------------ helper predicates
NoErrorIn(it)  == \A i \in 1..Len(it) : it[i][1] = "Ok"
HasErrorIn(it) == \E i \in 1..Len(it) : it[i][1] = "Err"
FirstError(it) ==
  it[CHOOSE i \in 1..Len(it) :
       it[i][1] = "Err" /\ \A j \in 1..(i - 1) : it[j][1] = "Ok"][2]
\* i is the last position of its tag in an error-free sequence
IsLastOfTag(it, i) == \A j \in (i + 1)..Len(it) : it[j][2].tag # it[i][2].tag
\* the seeks and decodes among the collaborator calls of an operation
IoOps(trace) == SelectSeq(trace, LAMBDA x : x[1] \in {"seek", "decode"})
\* the uses of element and of the index among them
IndexOps(trace) == SelectSeq(trace, LAMBDA x : x[1] \in {"element", "get_mut"})

\* ------------------------------------------------------------------ claims

\* C1: for an error-free header sequence from_iter returns an object whose
\* key set is exactly the set of distinct tags of the sequence, and each
\* entry holds the header of the last occurrence of its tag.
C1_KeysAreDistinctTagsLastWins ==
  (pc # "new" /\ NoErrorIn(iter)) =>
    /\ pc # "failed"
    /\ DOMAIN entries = {iter[i][2].tag : i \in 1..Len(iter)}
    /\ \A i \in 1..Len(iter) :
         IsLastOfTag(iter, i) => entries[iter[i][2].tag].marker = iter[i][2]

C1_Witness ==
  /\ pc = "ready" /\ ret.op = "from_iter" /\ ret.result = "Ok"
  /\ \E i, j \in 1..Len(iter) :
       /\ i < j /\ IsLastOfTag(iter, j)
       /\ iter[i][2].tag = iter[j][2].tag
       /\ iter[i][2].len # iter[j][2].len /\ iter[i][2].pos # iter[j][2].pos
       /\ entries[iter[j][2].tag].marker = iter[j][2]

\* C2: when the header sequence holds an error, from_iter returns the first
\* error of the sequence and no object, so no entry built from the headers
\* before the error can be observed.
C2_FirstErrorNoObject ==
  (pc # "new" /\ HasErrorIn(iter)) =>
    /\ pc = "failed"
    /\ ret.op = "from_iter" /\ ret.result = "Err"
    /\ ret.err = FirstError(iter)
    /\ DOMAIN entries = {}

C2_Witness ==
  /\ pc = "failed" /\ ret.result = "Err"
  /\ Len(iter) = 3
  /\ iter[1][1] = "Ok" /\ iter[2][1] = "Err" /\ iter[3][1] = "Err"
  /\ iter[2][2] # iter[3][2]
  /\ ret.err = iter[2][2]

\* C3: element called with a tag that is not a key of the index returns the
\* error NoSuchDataElement and nothing else.
C3_AbsentTagNoSuchDataElement ==
  (ret.op = "element" /\ ret.tag \notin DOMAIN entries) =>
    (ret.result = "Err" /\ ret.err = "NoSuchDataElement" /\ pc = "ready")

C3_Witness ==
  /\ ret.op = "element" /\ ret.tag \notin DOMAIN entries
  /\ DOMAIN entries # {}
  /\ ret.err = "NoSuchDataElement"

\* C4: element_by_name called with a name the dictionary does not resolve
\* returns NoSuchAttributeName, without calling element and without
\* consulting the entry index.
C4_UnknownNameNoSuchAttributeName ==
  (ret.op = "element_by_name" /\ ret.name \notin DOMAIN StandardDictionary) =>
    /\ ret.result = "Err" /\ ret.err = "NoSuchAttributeName"
    /\ IndexOps(ret.trace) = << >>
    /\ pc = "ready"

C4_Witness ==
  /\ ret.op = "element_by_name" /\ ret.name = "NoSuchName"
  /\ ret.err = "NoSuchAttributeName"
  /\ DOMAIN entries # {}

\* C5: a lookup that fails with NoSuchDataElement or NoSuchAttributeName
\* leaves the key set, every header and every cached value as they were and
\* performs no seek and no decode on the source.
C5_FailedLookupChangesNothing ==
  [][(/\ pc = "ready"
      /\ ret'.op \in {"element", "element_by_name"}
      /\ ret'.result = "Err"
      /\ ret'.err \in {"NoSuchDataElement", "NoSuchAttributeName"})
     => (entries' = entries /\ IoOps(ret'.trace) = << >>)]_vars

C5_Witness ==
  /\ ret.op = "element_by_name" /\ ret.name \in DOMAIN StandardDictionary
  /\ ret.result = "Err" /\ ret.err = "NoSuchDataElement"
  /\ Cardinality(DOMAIN entries) = 2
  /\ pc = "ready"

\* C6: for every tag present in the object two successive element calls
\* return an identical value; the call that finds the cache empty seeks and
\* decodes and leaves the returned value in the cache, the call that finds a
\* cached value returns it with no seek and no decode.
C6_ElementIdempotent ==
  [][\A t \in DOMAIN entries :
       Element(t) =>
         /\ ret'.result = "Ok" /\ ret'.value # None
         /\ entries'[t].value = ret'.value
         /\ IF entries[t].value = None
            THEN /\ \E i \in 1..Len(ret'.trace) : ret'.trace[i][1] = "seek"
                 /\ \E i \in 1..Len(ret'.trace) : ret'.trace[i][1] = "decode"
            ELSE /\ ret'.value = entries[t].value
                 /\ IoOps(ret'.trace) = << >>]_vars

\* C7: for a name the dictionary resolves to a tag t, element_by_name(name)
\* ends as element(t) would from the same state: same outcome, same error,
\* same value, same object afterwards, and nothing done beyond the name
\* lookup and what element does.
C7_ByNameEqualsByTag ==
  [][\A n \in DOMAIN StandardDictionary :
       ElementByName(n) =>
         LET r == element(entries, StandardDictionary[n])
         IN  /\ ret'.result = r.result
             /\ ret'.err = r.err
             /\ ret'.value = r.value
             /\ entries' = r.entries
             /\ pc' = PcAfter(r.result)
             /\ ret'.trace = << <<"get_by_name", n>> >> \o r.trace]_vars

C7_Witness ==
  /\ ret.op = "element_by_name" /\ ret.name = "StudyDate"
  /\ StudyDate \notin DOMAIN entries /\ PatientName \in DOMAIN entries
  /\ ret.result = "Err" /\ ret.err = "NoSuchDataElement"
  /\ Len(ret.trace) = 3

\* C8: a cached value, once present, is never reset to absent and never
\* replaced by a different value, whatever is done with the object or with
\* the element, value_mut included.
C8_CacheWrittenOnce ==
  [][/\ \A t \in DOMAIN entries :
          entries[t].value # None =>
            (t \in DOMAIN entries' /\ entries'[t].value = entries[t].value)
     /\ (elem # << >> /\ elem[1].value # None) =>
          (elem' # << >> /\ elem'[1].value = elem[1].value)]_vars

\* C9: right after from_iter succeeds no entry holds a cached value and
\* construction has done no seek and no decode; in every state an entry holds
\* a cached value only if element or element_by_name returned successfully
\* for its tag before.
C9_Lazy ==
  /\ ret.op = "from_iter" =>
       /\ IoOps(ret.trace) = << >>
       /\ \A t \in DOMAIN entries : entries[t].value = None
  /\ \A t \in DOMAIN entries : entries[t].value # None => t \in served

C9_Witness ==
  /\ pc = "ready" /\ ret.op = "from_iter" /\ ret.result = "Ok"
  /\ DOMAIN entries = HeaderTags
  /\ \A t \in DOMAIN entries : value(entries[t]) = None
  /\ served = {}

\* C10: element for a present tag whose cache is empty and whose header has
\* a defined length seeks the source to the header's position, decodes
\* exactly the header's length, stores the decoded value in the entry's
\* cache and returns that value.
C10_FirstMaterialization ==
  [][\A t \in DOMAIN entries :
       (/\ Element(t)
        /\ entries[t].value = None
        /\ len(entries[t]) # UndefinedLength)
       => /\ ret'.result = "Ok" /\ ret'.value # None
          /\ IoOps(ret'.trace) = << <<"seek", entries[t].marker.pos>>,
                                    <<"decode", len(entries[t])>> >>
          /\ entries'[t].value = ret'.value]_vars

\* C11: element on an entry whose declared length is the sentinel 0xFFFFFFFF
\* never decodes 0xFFFFFFFF bytes; it returns a value whose extent it found by
\* delimiter-based decoding for the entry's VR.
C11_UndefinedLengthByDelimiter ==
  [][\A t \in DOMAIN entries :
       (Element(t) /\ entries[t].value = None
                   /\ len(entries[t]) = UndefinedLength)
       => /\ \A i \in 1..Len(ret'.trace) :
               ret'.trace[i] # <<"decode", UndefinedLength>>
          /\ ret'.result = "Ok" /\ ret'.value # None
          /\ \E i \in 1..Len(ret'.trace) :
               ret'.trace[i] = <<"decode_until_delimiter", vr(entries[t])>>]_vars

\* C12: pixel_data never returns a success result; every call ends in an
\* explicit failure, an error value or a panic.
C12_PixelDataNeverSucceeds ==
  ret.op = "pixel_data" =>
    /\ ret.result # "Ok"
    /\ ret.result \in {"Err", "Panic"}
    /\ ret.value = None

C12_Witness ==
  /\ ret.op = "pixel_data" /\ ret.result = "Panic" /\ pc = "panicked"
  /\ DOMAIN entries # {}

\* C13: element, element_by_name and pixel_data end by returning Ok or Err to
\* the caller; no call ends in a panic.
C13_NoPanic ==
  ret.op \in {"element", "element_by_name", "pixel_data"} =>
    (ret.result \in {"Ok", "Err"} /\ pc # "panicked")

\* C14: an element call, whatever its outcome, changes at most the cached
\* value of the entry of the tag it was given; the header of that entry and
\* the header and cached value of every other entry stay as they were.
C14_PerEntryIsolation ==
  [][\A t \in Tags :
       Element(t) =>
         /\ DOMAIN entries' = DOMAIN entries
         /\ \A u \in DOMAIN entries :
              /\ entries'[u].marker = entries[u].marker
              /\ u # t => value(entries'[u]) = value(entries[u])]_vars

C14_Witness ==
  /\ ret.op = "element" /\ ret.tag = PatientName
  /\ DOMAIN entries = {StudyDate, PatientName}
  /\ value(entries[StudyDate]) = None
  /\ entries[StudyDate].marker.pos # entries[PatientName].marker.pos

\* C15: after any calls of element, element_by_name and pixel_data the key
\* set is still the one from_iter built, and tag(), vr() and len() of every
\* entry return the values of the header the entry was built from.
C15_IndexImmutable ==
  (pc \in {"ready", "panicked"}) =>
    /\ DOMAIN entries = {iter[i][2].tag : i \in 1..Len(iter)}
    /\ \A i \in 1..Len(iter) :
         IsLastOfTag(iter, i) =>
           LET e == entries[iter[i][2].tag]
           IN  /\ tag(e) = iter[i][2].tag
               /\ vr(e) = iter[i][2].vr
               /\ len(e) = iter[i][2].len

C15_Witness ==
  /\ pc = "panicked" /\ ret.op = "element_by_name" /\ ret.name = "StudyDate"
  /\ Len(iter) = 3
  /\ DOMAIN entries = {StudyDate, PatientName}
  /\ len(entries[StudyDate]) = UndefinedLength
  /\ vr(entries[StudyDate]) = "SQ"
  /\ tag(entries[PatientName]) = PatientName

\* C16: for two present tags a and b, element(a) returns the same value
\* whether or not element(b) was called before it, the cached state after
\* asking for both is the same in either order, and each first access seeks
\* to the position of its own header.
C16_LookupOrderIndependent ==
  pc = "ready" =>
    \A a, b \in DOMAIN entries :
      a # b =>
        LET ra  == element(entries, a)
            rb  == element(entries, b)
            rab == element(rb.entries, a)
            rba == element(ra.entries, b)
        IN  /\ ra.result = "Ok" /\ rab.result = "Ok"
            /\ ra.value # None /\ rab.value = ra.value
            /\ rab.entries = rba.entries
            /\ Len(IoOps(ra.trace)) > 0
            /\ IoOps(ra.trace)[1] = <<"seek", entries[a].marker.pos>>
            /\ Len(IoOps(rab.trace)) > 0
            /\ IoOps(rab.trace)[1] = <<"seek", entries[a].marker.pos>>

\* C17: from_iter pulls the items of the header sequence in order, each at
\* most once: all of them when none is an error, and otherwise the items up
\* to and including the first error and none after it.
C17_PulledUpToFirstError ==
  pc # "new" =>
    /\ NoErrorIn(iter) => pulled = Len(iter)
    /\ HasErrorIn(iter) =>
         /\ pulled \in 1..Len(iter)
         /\ iter[pulled][1] = "Err"
         /\ \A j \in 1..(pulled - 1) : iter[j][1] = "Ok"

C17_Witness ==
  /\ pc = "failed" /\ Len(iter) = 3 /\ pulled = 2
  /\ iter[1][1] = "Ok" /\ iter[2][1] = "Err" /\ iter[3][1] = "Ok"

\* C18: element_by_name decides the name before the index: a name that
\* resolves to a tag absent from the object gives NoSuchDataElement, a name
\* that does not resolve gives NoSuchAttributeName even when the object has
\* no entry, and the name lookup is the first thing the call does.
C18_NameErrorBeforeIndexError ==
  ret.op = "element_by_name" =>
    /\ Len(ret.trace) > 0 /\ ret.trace[1] = <<"get_by_name", ret.name>>
    /\ ret.name \notin DOMAIN StandardDictionary =>
         (ret.result = "Err" /\ ret.err = "NoSuchAttributeName")
    /\ (/\ ret.name \in DOMAIN StandardDictionary
        /\ StandardDictionary[ret.name] \notin DOMAIN entries) =>
         (ret.result = "Err" /\ ret.err = "NoSuchDataElement")

C18_Witness ==
  /\ ret.op = "element_by_name" /\ ret.name = "NoSuchName"
  /\ DOMAIN entries = {}
  /\ ret.result = "Err" /\ ret.err = "NoSuchAttributeName"

====
